---- MODULE Spec2Model ----
(***************************************************************************)
(* Model of the Typeform webhook handler                                   *)
(* (kissinger/typeform-webhook/webhook-handler/app.py).                    *)
(*                                                                         *)
(* One Lambda invocation is a sequential program; its position is pc[i].  *)
(* The stores the handler talks to (Cognito user pool, DynamoDB story      *)
(* table, SQS queue) are shared by all invocations.  Every call that       *)
(* leaves the process (SSM, Cognito, DynamoDB, SQS, Slack) either returns  *)
(* or raises; which of the two happens is chosen by the environment.       *)
(***************************************************************************)
EXTENDS Naturals, Sequences, FiniteSets, TLC

VARIABLES
    pc,          \* pc[i]: position of invocation i in lambda_handler
    event,       \* event[i]: the event lambda_handler was called with
    cognito_user,\* cognito_user[i]: result of get_cognito_user (app.py:66)
    prompt,      \* prompt[i]: the composed prompt (app.py:137-165)
    trace,       \* trace[i]: externally visible steps taken, in order
    alerts,      \* alerts[i]: calls of send_error_to_slack made so far
    lost,        \* lost[i]: the post of such a call raised
    resp,        \* resp[i]: how the invocation ended
    reqId,       \* reqId[i]: context.aws_request_id of the invocation
    clock,       \* invocations started so far; the source of datetime.now()
    userPool,    \* Cognito: attributes of every user of the pool
    stories,     \* DynamoDB STORY_TABLE: the set of items
    queue,       \* SQS: number of typeform.processed messages per user
    xFields,     \* extraction: definition['fields'] of the payload
    xRead,       \* extraction: answers the loop has gone through
    xSubmitted,  \* extraction: per field id, the answer submitted last
    xMap,        \* extraction: question_id_to_answer
    xPairs,      \* extraction: question_answer_pairs
    xDone        \* extraction: lines 103-106 have run

vars == <<pc, event, cognito_user, prompt, trace, alerts, lost, resp, reqId,
          clock, userPool, stories, queue, xFields, xRead, xSubmitted, xMap, xPairs, xDone>>

pipeVars == <<pc, event, cognito_user, prompt, trace, alerts, lost, resp, reqId,
              clock, userPool, stories, queue>>

xVars == <<xFields, xRead, xSubmitted, xMap, xPairs, xDone>>

(***************************************************************************)
(* Bounds                                                                  *)
(***************************************************************************)
\* invocations started in one behaviour
MaxInvocations == 2
\* answers the extraction loop reads
MaxAnswers == 2
\* value-shape tags one answer carries
MaxTags == 2

\* Two invocations can be in flight at once (the duplicate delivery the
\* persistence race is about).
Slots == {1, 2}

(***************************************************************************)
(* Python values.  A value carries its type, so that 5 and "5", or True    *)
(* and "True", are different values, as they are in the program.           *)
(***************************************************************************)
PyStr(s) == [type |-> "str", repr |-> s]
PyInt(n) == [type |-> "int", repr |-> ToString(n)]
PyBool(b) == [type |-> "bool", repr |-> IF b THEN "True" ELSE "False"]
PyNone == [type |-> "NoneType", repr |-> "None"]

\* truthiness of a Python value
Truthy(v) == ~(v \in {PyStr(""), PyNone, PyBool(FALSE), PyInt(0)})

\* str(x), and the formatting of x inside an f-string
str(x) == PyStr(x.repr)

\* d[k] = v on a dict
DictSet(d, k, v) == [x \in (DOMAIN d) \cup {k} |-> IF x = k THEN v ELSE d[x]]

\* the empty dict
EmptyDict == [x \in {} |-> PyNone]

\* d.get(k, default)
DictGet(d, k, default) == IF k \in DOMAIN d THEN d[k] ELSE default

\* ', '.join(parts) for a list of strings
RECURSIVE JoinComma(_)
JoinComma(parts) ==
    IF parts = <<>> THEN ""
    ELSE IF Len(parts) = 1 THEN parts[1]
    ELSE parts[1] \o ", " \o JoinComma(Tail(parts))

(***************************************************************************)
(* Answer extraction (app.py:307-354, 99-106, 420-428)                     *)
(***************************************************************************)
RECURSIVE TitleLoop(_, _)
TitleLoop(fields, acc) ==
    IF fields = <<>> THEN acc
    ELSE TitleLoop(Tail(fields),
                   DictSet(acc, Head(fields).id, Head(fields).title))

get_question_id_to_title(data) == TitleLoop(data.fields, EmptyDict)

\* the chain with `if answer.get(tag)` in place of `if tag in answer`
answer_value_truthy(answer) ==
    LET Has(tag) == tag \in DOMAIN answer /\ Truthy(answer[tag])
    IN  IF Has("text") THEN answer["text"]
        ELSE IF Has("email") THEN answer["email"]
        ELSE IF Has("phone_number") THEN answer["phone_number"]
        ELSE IF Has("date") THEN answer["date"]
        ELSE IF "choice" \in DOMAIN answer THEN answer["choice"].label
        ELSE IF "choices" \in DOMAIN answer THEN
            IF answer["choices"].labels # <<>>
            THEN PyStr(JoinComma(answer["choices"].labels))
            ELSE answer["choices"].other
        ELSE IF Has("number") THEN answer["number"]
        ELSE IF Has("boolean") THEN answer["boolean"]
        ELSE IF "file" \in DOMAIN answer THEN answer["file"].url
        ELSE IF "payment" \in DOMAIN answer THEN str(answer["payment"].successful)
        ELSE IF Has("url") THEN answer["url"]
        ELSE PyStr("Answer type not supported")

\* the if/elif chain of map_question_id_to_answer for one answer
answer_value(answer) ==
    IF "text" \in DOMAIN answer THEN answer["text"]
    ELSE IF "email" \in DOMAIN answer THEN answer["email"]
    ELSE IF "phone_number" \in DOMAIN answer THEN answer["phone_number"]
    ELSE IF "date" \in DOMAIN answer THEN answer["date"]
    ELSE IF "choice" \in DOMAIN answer THEN answer["choice"].label
    ELSE IF "choices" \in DOMAIN answer THEN
        IF answer["choices"].labels # <<>>
        THEN PyStr(JoinComma(answer["choices"].labels))
        ELSE answer["choices"].other
    ELSE IF "number" \in DOMAIN answer THEN answer["number"]
    ELSE IF "boolean" \in DOMAIN answer THEN answer["boolean"]
    ELSE IF "file" \in DOMAIN answer THEN answer["file"].url
    ELSE IF "payment" \in DOMAIN answer THEN str(answer["payment"].successful)
    ELSE IF "url" \in DOMAIN answer THEN answer["url"]
    ELSE PyStr("Answer type not supported")

\* one iteration of the loop of map_question_id_to_answer (app.py:322-350)
map_answer(acc, answer) == DictSet(acc, answer["field"].id, answer_value(answer))

RECURSIVE AnswerLoop(_, _)
AnswerLoop(data, acc) ==
    IF data = <<>> THEN acc
    ELSE AnswerLoop(Tail(data), map_answer(acc, Head(data)))

map_question_id_to_answer(data) == AnswerLoop(data, EmptyDict)

\* lambda_handler, lines 103-106
merge_pairs(question_id_to_title, question_id_to_answer) ==
    [key \in DOMAIN question_id_to_title |->
        [title |-> question_id_to_title[key],
         answer |-> DictGet(question_id_to_answer, key, PyStr(""))]]

\* lambda_handler, lines 99-106
question_answer_pairs(form_definition, form_answers) ==
    merge_pairs(get_question_id_to_title(form_definition),
                map_question_id_to_answer(form_answers))

safe_get_answer(pairs, question_id) ==
    IF question_id \in DOMAIN pairs
    THEN pairs[question_id].answer
    ELSE PyStr("Not provided")

(***************************************************************************)
(* Age (app.py:431-442).  Text that strptime accepts is listed with the    *)
(* date it parses to; any other text makes strptime raise ValueError.      *)
(***************************************************************************)
ParsedDates ==
    [s \in {"1990-06-15", "1985-01-02"} |->
        IF s = "1990-06-15" THEN [year |-> 1990, month |-> 6, day |-> 15]
        ELSE [year |-> 1985, month |-> 1, day |-> 2]]

\* datetime.strptime(s, "%Y-%m-%d") succeeds
strptime_ok(value) == value.type = "str" /\ value.repr \in DOMAIN ParsedDates

\* the first invocation runs on 2024-06-14, each later one a day later
Today(c) == [year |-> 2024, month |-> 6, day |-> 13 + c]

\* (a.month, a.day) < (b.month, b.day), Python's tuple order
MonthDayBefore(a, b) ==
    \/ a.month < b.month
    \/ a.month = b.month /\ a.day < b.day

calculate_age(birthdate_str, current_date) ==
    LET birthdate == ParsedDates[birthdate_str.repr]
        notYet == IF MonthDayBefore(current_date, birthdate) THEN 1 ELSE 0
    IN  (current_date.year - birthdate.year) - notYet

(***************************************************************************)
(* Prompt composition (app.py:357-417, 445-477).  Text is a sequence of    *)
(* segments: the literal pieces of the f-strings and the formatted values. *)
(***************************************************************************)
format_cardio_detail(first_name, current_cardio, include_cardio, cardio_frequency, cardio_length, preferred_cardio_types) ==
    IF current_cardio = PyStr("Yes")
    THEN <<"3. Cardio: ", first_name.repr,
           " includes cardio in the workouts, doing ", cardio_frequency.repr,
           " sessions of ", preferred_cardio_types.repr, " for ",
           cardio_length.repr, ". ">>
    ELSE IF include_cardio = PyStr("Yes")
    THEN <<"3. Cardio: ", first_name.repr,
           " plans to start including cardio in the sessions, aiming for ",
           cardio_frequency.repr, " sessions of ", preferred_cardio_types.repr,
           " for ", cardio_length.repr, ". ">>
    ELSE <<"3. Cardio: Don't include cardio in any plan. ">>

format_environment_detail(first_name, workout_location, gym_name, available_equipment, other_equipment) ==
    IF workout_location = PyStr("Gym")
    THEN <<"4. Environment: ", first_name.repr, " trains at ", gym_name.repr, ". ">>
    ELSE LET equipment ==
                 IF Truthy(other_equipment)
                 THEN JoinComma(<<available_equipment.repr, other_equipment.repr>>)
                 ELSE available_equipment.repr
         IN  <<"4. Environment: ", first_name.repr,
               " trains at home with access to ", equipment, ". ">>

format_injury_detail(first_name, physical_injuries, injury_details) ==
    IF physical_injuries = PyStr("Yes")
    THEN <<"7. Injury: ", first_name.repr, " has reported ", injury_details.repr, ". ">>
    ELSE <<>>

format_sets_reps(sets_reps, sets_reps_custom) ==
    IF sets_reps = PyStr("I have a different style")
    THEN sets_reps_custom
    ELSE sets_reps

\* p is the record of generate_prompt's arguments
generate_prompt(p) ==
    LET cardio_detail ==
            format_cardio_detail(p.first_name, p.current_cardio, p.include_cardio,
                                 p.cardio_frequency, p.cardio_length,
                                 p.preferred_cardio_types)
        environment_detail ==
            format_environment_detail(p.first_name, p.workout_location, p.gym_name,
                                      p.available_equipment, p.other_equipment)
        injury_detail ==
            format_injury_detail(p.first_name, p.physical_injuries, p.injury_details)
        formatted_sets_reps == format_sets_reps(p.sets_reps, p.sets_reps_custom)
    IN  <<"Create a workout for ", p.first_name.repr, " ", p.last_name.repr, ", ",
          p.age.repr, " years old, ", p.gender.repr, ", fitness level: ",
          p.fitness_level.repr, ", height: ", p.height.repr, ", weight: ",
          p.weight.repr, " lbs. ",
          "Fitness goals: ", p.fitness_goals.repr, ". ",
          "Training frequency: ", p.exercise_frequency.repr,
          " sessions/week, duration: ", p.workout_duration.repr, " per session. ",
          "Each session includes ", p.weightlifting_duration.repr,
          " of weightlifting with ", p.number_of_exercises.repr,
          " performed in ", formatted_sets_reps.repr, ". ">>
        \o cardio_detail
        \o environment_detail
        \o injury_detail
        \o <<"Based on ", p.first_name.repr,
             "'s preferences, create a workout with a warm-up, main exercises, cardio (if included), and a cool-down.">>

\* segments made of code points of the pattern's ranges only
EmojiSegments == {"U+1F389", "U+1F525", "U+FE0F"}

remove_emojis(text) ==
    LET Keep(seg) == seg \notin EmojiSegments
    IN  SelectSeq(text, Keep)

\* lambda_handler, lines 108-135: the arguments of generate_prompt
ResolvedProfile(pairs, first_name, last_name, age) ==
    [first_name |-> first_name,
     last_name |-> last_name,
     age |-> age,
     height |-> safe_get_answer(pairs, "Ie0vINxRmbiE"),
     weight |-> safe_get_answer(pairs, "U00Hv7HSJJE1"),
     gender |-> safe_get_answer(pairs, "7NgJc6n3fYKa"),
     fitness_goals |-> safe_get_answer(pairs, "EKEiaNAbhs9B"),
     fitness_level |-> safe_get_answer(pairs, "dN0leyRXTKwb"),
     exercise_frequency |-> safe_get_answer(pairs, "v3luF8GH8oTn"),
     workout_duration |-> safe_get_answer(pairs, "4qftExcBXdrX"),
     weightlifting_duration |-> safe_get_answer(pairs, "wORIrsd4ZVLR"),
     number_of_exercises |-> safe_get_answer(pairs, "nY5mGGjAbXgZ"),
     sets_reps |-> safe_get_answer(pairs, "VYFQXGfIQyAy"),
     sets_reps_custom |-> safe_get_answer(pairs, "hLOuuzKYATVt"),
     workout_location |-> safe_get_answer(pairs, "umri0ewHbWux"),
     gym_name |-> safe_get_answer(pairs, "fStabAHHt7Hw"),
     available_equipment |-> safe_get_answer(pairs, "9CnfCXmUgSXo"),
     other_equipment |-> safe_get_answer(pairs, "F0T49AYX7sf2"),
     current_cardio |-> safe_get_answer(pairs, "zYfBaTZMNkFI"),
     include_cardio |-> safe_get_answer(pairs, "lKUgraPL2qDa"),
     cardio_frequency |-> safe_get_answer(pairs, "ZRYPo085Loaz"),
     cardio_length |-> safe_get_answer(pairs, "L5vTS0xxncEz"),
     preferred_cardio_types |-> safe_get_answer(pairs, "qu9e790LtDZh"),
     physical_injuries |-> safe_get_answer(pairs, "zp6cr5EGryS5"),
     injury_details |-> safe_get_answer(pairs, "TDFLXROBWg4r")]

(***************************************************************************)
(* Signature (app.py:30-55, 275-286).  A header value is a sequence of     *)
(* pieces, "=" being a piece of its own; a base64 digest of 32 bytes ends  *)
(* in one "=" of padding.  The HMAC is collision free.                     *)
(***************************************************************************)
\* base64.b64encode(hmac.new(secret, payload, sha256).digest()).decode()
encoded_digest(secret, payload) == <<"hmac(" \o secret \o "," \o payload \o ")", "=">>

\* index of the first "=" of a header value, 0 when there is none
RECURSIVE FirstEq(_, _)
FirstEq(s, k) ==
    IF k > Len(s) THEN 0
    ELSE IF s[k] = "=" THEN k
    ELSE FirstEq(s, k + 1)

\* received_signature.split('=', 1)
split_eq_1(s) ==
    LET k == FirstEq(s, 1)
    IN  IF k = 0 THEN <<s>>
        ELSE <<SubSeq(s, 1, k - 1), SubSeq(s, k + 1, Len(s))>>

(***************************************************************************)
(* Webhook payloads.  A raw body is a piece of text; json.loads maps it to *)
(* the document it encodes, or raises when it encodes none.                *)
(***************************************************************************)
Field(id, title) == [id |-> id, title |-> title]
TextAnswer(id, s) == [field |-> [id |-> id], text |-> PyStr(s)]
DateAnswer(id, s) == [field |-> [id |-> id], date |-> PyStr(s)]
ChoiceAnswer(id, s) == [field |-> [id |-> id], choice |-> [label |-> PyStr(s)]]

FormFields ==
    <<Field("VYsICm8rAEYx", "Birthdate"), Field("VYFQXGfIQyAy", "Sets and reps"),
      Field("hLOuuzKYATVt", "Your style"), Field("umri0ewHbWux", "Where"),
      Field("fStabAHHt7Hw", "Gym"), Field("zYfBaTZMNkFI", "Cardio now"),
      Field("zp6cr5EGryS5", "Injuries"), Field("TDFLXROBWg4r", "Injury details")>>

GymAnswers(birthdate) ==
    <<birthdate, ChoiceAnswer("VYFQXGfIQyAy", "3x10"),
      ChoiceAnswer("umri0ewHbWux", "Gym"), TextAnswer("fStabAHHt7Hw", "Iron Temple"),
      ChoiceAnswer("zYfBaTZMNkFI", "Yes"), ChoiceAnswer("zp6cr5EGryS5", "No")>>

HomeAnswers ==
    <<DateAnswer("VYsICm8rAEYx", "1985-01-02"),
      ChoiceAnswer("VYFQXGfIQyAy", "I have a different style"),
      TextAnswer("hLOuuzKYATVt", "Pyramid sets"), ChoiceAnswer("umri0ewHbWux", "Home"),
      ChoiceAnswer("zYfBaTZMNkFI", "No"), ChoiceAnswer("zp6cr5EGryS5", "Yes"),
      TextAnswer("TDFLXROBWg4r", "U+1F389")>>

FormResponse(user_id, token, fields, answers) ==
    [form_id |-> "form1", token |-> token, hidden |-> [user_id |-> user_id],
     definition |-> [fields |-> fields], answers |-> answers]

\* the record r without its key k
Without(r, k) == [x \in (DOMAIN r) \ {k} |-> r[x]]

Doc(form_response) == [form_response |-> form_response]

GoodForm == FormResponse("u1", "tokA", FormFields,
                         GymAnswers(DateAnswer("VYsICm8rAEYx", "1990-06-15")))

Documents ==
    [b \in {"formA", "formB", "formC", "badDate", "noDate", "ghost", "noFormId",
            "noToken", "noUserId", "noDefinition", "noAnswers"} |->
        CASE b = "formA" -> Doc(GoodForm)
          [] b = "formB" -> Doc(FormResponse("u1", "tokB", FormFields, HomeAnswers))
          [] b = "formC" -> Doc(FormResponse("u2", "tokC", FormFields,
                                GymAnswers(DateAnswer("VYsICm8rAEYx", "1990-06-15"))))
          [] b = "badDate" -> Doc(FormResponse("u1", "tokD", FormFields,
                                  GymAnswers(TextAnswer("VYsICm8rAEYx", "15/06/1990"))))
          [] b = "noDate" -> Doc(FormResponse("u1", "tokE", Tail(FormFields),
                                 Tail(GymAnswers(DateAnswer("VYsICm8rAEYx", "1990-06-15")))))
          [] b = "ghost" -> Doc(FormResponse("ghost", "tokF", FormFields, HomeAnswers))
          [] b = "noFormId" -> Doc(Without(GoodForm, "form_id"))
          [] b = "noToken" -> Doc(Without(GoodForm, "token"))
          [] b = "noUserId" -> Doc([GoodForm EXCEPT !.hidden = [other |-> "x"]])
          [] b = "noDefinition" -> Doc(Without(GoodForm, "definition"))
          [] b = "noAnswers" -> Doc(Without(GoodForm, "answers"))]

\* bodies that can arrive; "notJson" encodes no document
RawBodies == (DOMAIN Documents) \cup {"notJson"}

\* json.loads(raw_body) returns
json_loads_ok(raw_body) == raw_body \in DOMAIN Documents

json_loads(raw_body) == Documents[raw_body]

\* lines 58-60 raise no KeyError
ids_present(body) ==
    /\ "form_id" \in DOMAIN body.form_response
    /\ "token" \in DOMAIN body.form_response
    /\ "user_id" \in DOMAIN body.form_response.hidden

\* the secret the sender signs with: SSM parameter 'typeformSecret'
WEBHOOK_SECRET == "s3cret"

SigHeader == "Typeform-Signature"

NoHeaders == [x \in {} |-> <<>>]

\* the values the signature header takes for a body
HeadersFor(b) ==
    {NoHeaders,
     [x \in {SigHeader} |-> <<>>],
     [x \in {SigHeader} |-> <<"sha256">>],
     [x \in {SigHeader} |-> <<"sha1", "=">> \o encoded_digest(WEBHOOK_SECRET, b)],
     [x \in {SigHeader} |-> <<"sha256", "=">> \o encoded_digest("guess", b)],
     [x \in {SigHeader} |-> <<"sha256", "=">> \o encoded_digest(WEBHOOK_SECRET, b)]}

Events == UNION {{[headers |-> h, body |-> b] : h \in HeadersFor(b)} : b \in RawBodies}

\* a sender delivering submissions of one user more than once
DuplicateDeliveries ==
    {[headers |-> [x \in {SigHeader} |->
                      <<"sha256", "=">> \o encoded_digest(WEBHOOK_SECRET, b)],
      body |-> b] : b \in {"formA", "formB"}}

(***************************************************************************)
(* Outcomes of an invocation, and the stores                               *)
(***************************************************************************)
Pending == [kind |-> "pending", statusCode |-> 0, body |-> <<>>]
Returned(code, detail) == [kind |-> "return", statusCode |-> code, body |-> detail]
Raised(error) == [kind |-> "exception", statusCode |-> 0, body |-> <<error>>]

Detail(text) == <<"detail", text>>

NoEvent == [headers |-> NoHeaders, body |-> ""]
NoUser == [x \in {} |-> PyNone]

PoolUsers == {"u1", "u2"}

NewUser(given, family) ==
    [n \in {"given_name", "family_name"} |->
        IF n = "given_name" THEN PyStr(given) ELSE PyStr(family)]

\* datetime.now(timezone.utc).isoformat() and str(datetime.now())
NowText(c) == "2024-06-" \o ToString(13 + c)

\* the item save_to_db writes; uuid4 is the invocation's own fresh token
StoryItem(user_id, text, uuid, now) ==
    [PK |-> <<"USER#", user_id>>, SK |-> <<"STORY#", uuid>>,
     GSI1PK |-> <<"USER#", user_id>>, GSI1SK |-> "9999", entity |-> "story",
     userId |-> user_id, createdAt |-> now, prompt |-> text, chatRole |-> "user"]

\* a chat message another function wrote to the same table
ChatItem ==
    [PK |-> <<"USER#", "u2">>, SK |-> <<"MESSAGE#", 0>>,
     GSI1PK |-> <<"USER#", "u2">>, GSI1SK |-> "0001", entity |-> "message",
     userId |-> "u2", createdAt |-> "2024-06-01", prompt |-> <<"hello">>,
     chatRole |-> "assistant"]

\* dynamodb.query(PK = :pk AND begins_with(SK, :sk))
dynamodb_query(table, pk, sk) == {item \in table : item.PK = pk /\ item.SK[1] = sk}

\* the early return taken only when the query returns several items
already_has_story_several(items) == Cardinality(items) > 1

\* save_to_db returns without writing (app.py:239-241)
already_has_story(items) == Cardinality(items) > 0

\* a put with a condition: nothing is written when the user has a story
put_item_if_absent(table, item) ==
    IF \E x \in table : x.PK = item.PK /\ x.SK[1] = item.SK[1]
    THEN table
    ELSE table \cup {item}

\* dynamodb.put_item: an item replaces the item of the same key
put_item(table, item) ==
    {x \in table : ~(x.PK = item.PK /\ x.SK = item.SK)} \cup {item}

StoriesOf(u) == dynamodb_query(stories, <<"USER#", u>>, "STORY#")

(***************************************************************************)
(* Form definitions and answers the extraction is run on                   *)
(***************************************************************************)
TagOrder == <<"text", "email", "phone_number", "date", "choice", "choices",
              "number", "boolean", "file", "payment", "url">>

Tags == {TagOrder[k] : k \in DOMAIN TagOrder}

\* the shapes of a multiple-choice value
ChoicesShapes ==
    {[labels |-> <<"A", "B">>, other |-> PyStr("Custom")],
     [labels |-> <<>>, other |-> PyStr("Custom")],
     [labels |-> <<"A">>]}

\* the value under a tag; a number or a boolean can be 0 or False
TagValue(tag) ==
    CASE tag = "text" -> PyStr("free text")
      [] tag = "email" -> PyStr("ann@example.org")
      [] tag = "phone_number" -> PyStr("+15550100")
      [] tag = "date" -> PyStr("1990-06-15")
      [] tag = "choice" -> [label |-> PyStr("Yes")]
      [] tag = "number" -> PyInt(0)
      [] tag = "boolean" -> PyBool(FALSE)
      [] tag = "file" -> [url |-> PyStr("https://files/1")]
      [] tag = "payment" -> [successful |-> PyBool(TRUE)]
      [] tag = "url" -> PyStr("https://example.org")
      [] OTHER -> [rank |-> PyInt(1)]

\* a tag that lambda_handler does not know stands in an answer without tags
KeysOf(tagset) == IF tagset = {} THEN {"field", "ranking"} ELSE {"field"} \cup tagset

\* the answers to question q that carry the tags of tagset
AnswersWith(q, tagset) ==
    {[k \in KeysOf(tagset) |->
        IF k = "field" THEN [id |-> q]
        ELSE IF k = "choices" THEN c
        ELSE TagValue(k)] : c \in ChoicesShapes}

QuestionIds == {"q1", "q2"}

\* q1 is answered in every shape; q2, which serves to have a second or an
\* undefined field, in three of them
DrawnAnswers ==
    UNION {AnswersWith("q1", S) : S \in {T \in SUBSET Tags : Cardinality(T) <= MaxTags}}
    \cup UNION {AnswersWith("q2", S) : S \in {{}, {"text"}, {"number"}}}

DrawnFields == {Field("q1", "Title one"), Field("q2", "Title two")}

\* a form defines a field once
DrawnDefinitions ==
    {<<>>} \cup {<<f>> : f \in DrawnFields}
           \cup {<<f, g>> : <<f, g>> \in {d \in DrawnFields \X DrawnFields : d[1] # d[2]}}

InitExtraction ==
    /\ xRead = 0
    /\ xSubmitted = EmptyDict
    /\ xMap = EmptyDict
    /\ xPairs = EmptyDict
    /\ xDone = FALSE

(***************************************************************************)
(* Initial state                                                           *)
(***************************************************************************)
InitPipeline ==
    /\ pc = [i \in Slots |-> "idle"]
    /\ event = [i \in Slots |-> NoEvent]
    /\ cognito_user = [i \in Slots |-> NoUser]
    /\ prompt = [i \in Slots |-> <<>>]
    /\ trace = [i \in Slots |-> <<>>]
    /\ alerts = [i \in Slots |-> 0]
    /\ lost = [i \in Slots |-> FALSE]
    /\ resp = [i \in Slots |-> Pending]
    /\ reqId = [i \in Slots |-> 0]
    /\ clock = 0
    /\ userPool = [u \in PoolUsers |->
                      IF u = "u1" THEN NewUser("Ann", "Lee") ELSE NewUser("Bo", "Diaz")]
    /\ stories = {ChatItem}
    /\ queue = [u \in PoolUsers |-> 0]

Init ==
    /\ InitPipeline
    /\ xFields = <<>>
    /\ InitExtraction

(***************************************************************************)
(* Steps of lambda_handler.  trace[i] records each step of the pipeline    *)
(* when it ends, with what really happened to it (ok), whatever the        *)
(* handler then makes of it.                                               *)
(***************************************************************************)
Step(name, ok) == [step |-> name, ok |-> ok]

Body(i) == json_loads(event[i].body)
UserId(i) == Body(i).form_response.hidden.user_id

\* the step `name` is over: the handler goes on at `next` with outcome r,
\* having made n alert calls of which one raised iff `raised`
Ends(i, name, ok, next, r, n, raised) ==
    /\ pc' = [pc EXCEPT ![i] = next]
    /\ resp' = [resp EXCEPT ![i] = r]
    /\ alerts' = [alerts EXCEPT ![i] = @ + n]
    /\ lost' = [lost EXCEPT ![i] = @ \/ raised]
    /\ trace' = [trace EXCEPT ![i] = Append(@, Step(name, ok))]

\* send_error_to_slack (app.py:501-511): requests.post returns, or raises
\* and the exception leaves send_error_to_slack
send_error_to_slack(posted, otherwise) ==
    IF posted THEN otherwise ELSE Raised("RequestException")

\* log_and_alert(message) followed by `return r` (app.py:188-190)
log_and_alert(posted, r) == send_error_to_slack(posted, r)

\* the host calls lambda_handler(event, context)
Invoke(i, ev) ==
    /\ pc[i] = "idle"
    /\ clock < MaxInvocations
    /\ clock' = clock + 1
    /\ reqId' = [reqId EXCEPT ![i] = clock + 1]
    /\ event' = [event EXCEPT ![i] = ev]
    /\ pc' = [pc EXCEPT ![i] = "signature"]
    /\ UNCHANGED <<cognito_user, prompt, trace, alerts, lost, resp, userPool,
                   stories, queue, xVars>>

\* one delivery at a time: the host starts an invocation when none runs
Start ==
    /\ \A j \in Slots : pc[j] = "idle"
    /\ \E ev \in Events : Invoke(1, ev)

\* deliveries may overlap
StartConcurrent == \E i \in Slots, ev \in DuplicateDeliveries : Invoke(i, ev)

\* verify_signature with a handler that returns True
verify_signature_fail_open(secret_fetched, received_signature, payload) ==
    IF secret_fetched
    THEN encoded_digest(WEBHOOK_SECRET, payload) = received_signature
    ELSE TRUE

\* verify_signature (app.py:275-286): the value it returns
verify_signature(secret_fetched, received_signature, payload) ==
    IF secret_fetched
    THEN encoded_digest(WEBHOOK_SECRET, payload) = received_signature
    ELSE FALSE

\* the header is the one the holder of the secret computes for the body
Genuine(ev) ==
    /\ SigHeader \in DOMAIN ev.headers
    /\ ev.headers[SigHeader] = <<"sha256", "=">> \o encoded_digest(WEBHOOK_SECRET, ev.body)

\* lines 29-55
Signature(i) ==
    /\ pc[i] = "signature"
    /\ LET headers == event[i].headers
           missing == SigHeader \notin DOMAIN headers
           received == IF missing THEN <<>> ELSE headers[SigHeader]
           parts == split_eq_1(received)
       IN  \E posted \in BOOLEAN, secret_fetched \in BOOLEAN :
             IF received = <<>>
             THEN Ends(i, "verify_signature", FALSE, "done",
                       log_and_alert(posted, Returned(403, Detail("Permission denied."))),
                       1, ~posted)
             ELSE IF Len(parts) # 2
             THEN Ends(i, "verify_signature", FALSE, "done", Raised("ValueError"), 0, FALSE)
             ELSE IF parts[1] # <<"sha256">>
             THEN Ends(i, "verify_signature", FALSE, "done",
                       log_and_alert(posted, Returned(403, Detail("Operation not supported."))),
                       1, ~posted)
             ELSE IF verify_signature(secret_fetched, parts[2], event[i].body)
             THEN Ends(i, "verify_signature", secret_fetched /\ Genuine(event[i]),
                       "parse", Pending, 0, FALSE)
             ELSE Ends(i, "verify_signature", FALSE, "done",
                       log_and_alert(posted,
                           Returned(403, Detail("Invalid signature. Permission Denied."))),
                       IF secret_fetched THEN 1 ELSE 2, ~posted)
    /\ UNCHANGED <<event, cognito_user, prompt, reqId, clock, userPool, stories,
                   queue, xVars>>

\* lines 57-62
Parse(i) ==
    /\ pc[i] = "parse"
    /\ IF ~json_loads_ok(event[i].body)
       THEN /\ pc' = [pc EXCEPT ![i] = "done"]
            /\ resp' = [resp EXCEPT ![i] = Raised("JSONDecodeError")]
       ELSE IF ~ids_present(Body(i))
       THEN /\ pc' = [pc EXCEPT ![i] = "done"]
            /\ resp' = [resp EXCEPT ![i] = Raised("KeyError")]
       ELSE /\ pc' = [pc EXCEPT ![i] = "get_user"]
            /\ UNCHANGED resp
    /\ UNCHANGED <<event, cognito_user, prompt, trace, alerts, lost, reqId, clock,
                   userPool, stories, queue, xVars>>

UserNotFound == Returned(200, Detail("User not found."))

\* lines 64-78
GetUser(i) ==
    /\ pc[i] = "get_user"
    /\ \E answered \in BOOLEAN, posted \in BOOLEAN :
         IF answered /\ UserId(i) \in DOMAIN userPool
         THEN /\ cognito_user' = [cognito_user EXCEPT ![i] = userPool[UserId(i)]]
              /\ Ends(i, "get_cognito_user", TRUE, "update_user", Pending, 0, FALSE)
         ELSE /\ Ends(i, "get_cognito_user", FALSE, "done",
                      log_and_alert(posted, UserNotFound), 1, ~posted)
              /\ UNCHANGED cognito_user
    /\ UNCHANGED <<event, prompt, reqId, clock, userPool, stories, queue, xVars>>

\* update_user (app.py:207-225): the attributes after the call
update_user(attributes, args, now) ==
    DictSet(DictSet(DictSet(attributes,
        "custom:typeform_form_id", PyStr(args.typeformFormId)),
        "custom:typeform_response_id", PyStr(args.typeformResponseToken)),
        "custom:trial_start_date", PyStr(now))

UpdateFailed == Returned(200, Detail("Unable to update user with typeformIds."))

\* lines 80-93
UpdateUser(i) ==
    /\ pc[i] = "update_user"
    /\ \E updated \in BOOLEAN, posted \in BOOLEAN :
         IF updated
         THEN /\ userPool' = [userPool EXCEPT ![UserId(i)] =
                     update_user(@, [typeformFormId |-> Body(i).form_response.form_id,
                                     typeformResponseToken |-> Body(i).form_response.token],
                                 NowText(clock))]
              /\ Ends(i, "update_user", TRUE, "compose", Pending, 0, FALSE)
         ELSE /\ Ends(i, "update_user", FALSE, "done",
                      log_and_alert(posted, UpdateFailed), 1, ~posted)
              /\ UNCHANGED userPool
    /\ UNCHANGED <<event, cognito_user, prompt, reqId, clock, stories, queue, xVars>>

\* lines 95-165
Compose(i) ==
    /\ pc[i] = "compose"
    /\ LET form == Body(i).form_response
       IN  IF ~({"definition", "answers"} \subseteq DOMAIN form)
           THEN /\ Ends(i, "generate_prompt", FALSE, "done", Raised("KeyError"), 0, FALSE)
                /\ UNCHANGED prompt
           ELSE LET pairs == question_answer_pairs(form.definition, form.answers)
                    birthdate == safe_get_answer(pairs, "VYsICm8rAEYx")
                    first_name == DictGet(cognito_user[i], "given_name", PyNone)
                    last_name == DictGet(cognito_user[i], "family_name", PyNone)
                IN  IF ~strptime_ok(birthdate)
                    THEN /\ \E posted \in BOOLEAN :
                              Ends(i, "generate_prompt", FALSE, "done",
                                   send_error_to_slack(posted, Raised("ValueError")),
                                   1, ~posted)
                         /\ UNCHANGED prompt
                    ELSE /\ prompt' = [prompt EXCEPT ![i] =
                                remove_emojis(generate_prompt(
                                    ResolvedProfile(pairs, first_name, last_name,
                                        PyInt(calculate_age(birthdate, Today(clock))))))]
                         /\ Ends(i, "generate_prompt", TRUE, "notify", Pending, 0, FALSE)
    /\ UNCHANGED <<event, cognito_user, reqId, clock, userPool, stories, queue, xVars>>

\* send_to_slack without the `raise e` of its handler
send_to_slack_swallows(url_fetched, posted) ==
    [raises |-> FALSE,
     alerts |-> IF ~url_fetched THEN 2 ELSE IF ~posted THEN 1 ELSE 0]

\* send_to_slack (app.py:480-498): whether it raises, and the alert calls
\* it makes (one in get_parameter's handler, one in its own)
send_to_slack(url_fetched, posted) ==
    [raises |-> ~(url_fetched /\ posted),
     alerts |-> IF ~url_fetched THEN 2 ELSE IF ~posted THEN 1 ELSE 0]

\* line 166
Notify(i) ==
    /\ pc[i] = "notify"
    /\ \E url_fetched \in BOOLEAN, posted \in BOOLEAN, alerted \in BOOLEAN :
         LET r == send_to_slack(url_fetched, posted)
             delivered == url_fetched /\ posted
         IN  /\ delivered => alerted
             /\ IF r.raises
                THEN Ends(i, "send_to_slack", delivered, "done",
                          send_error_to_slack(alerted, Raised("SlackError")),
                          r.alerts, ~alerted)
                ELSE Ends(i, "send_to_slack", delivered, "query", Pending,
                          r.alerts, FALSE)
    /\ UNCHANGED <<event, cognito_user, prompt, reqId, clock, userPool, stories,
                   queue, xVars>>

SaveFailed == Returned(200, Detail("Unable to save user story to db."))

\* save_to_db, lines 229-243: the query and the early return
Query(i) ==
    /\ pc[i] = "query"
    /\ \E answered \in BOOLEAN, posted \in BOOLEAN :
         IF ~answered
         THEN Ends(i, "save_to_db", FALSE, "done",
                   log_and_alert(posted, SaveFailed), 1, ~posted)
         ELSE IF already_has_story(dynamodb_query(stories, <<"USER#", UserId(i)>>, "STORY#"))
         THEN Ends(i, "save_to_db", TRUE, "publish", Pending, 0, FALSE)
         ELSE /\ pc' = [pc EXCEPT ![i] = "put"]
              /\ UNCHANGED <<trace, alerts, lost, resp>>
    /\ UNCHANGED <<event, cognito_user, prompt, reqId, clock, userPool, stories,
                   queue, xVars>>

\* save_to_db, lines 245-262: the insert
Put(i) ==
    /\ pc[i] = "put"
    /\ \E written \in BOOLEAN, posted \in BOOLEAN :
         IF written
         THEN /\ stories' = put_item(stories,
                     StoryItem(UserId(i), prompt[i], reqId[i], NowText(clock)))
              /\ Ends(i, "save_to_db", TRUE, "publish", Pending, 0, FALSE)
         ELSE /\ Ends(i, "save_to_db", FALSE, "done",
                      log_and_alert(posted, SaveFailed), 1, ~posted)
              /\ UNCHANGED stories
    /\ UNCHANGED <<event, cognito_user, prompt, reqId, clock, userPool, queue, xVars>>

\* the response of lines 183-185
Success == Returned(200, <<>>)

\* lines 176-185
Publish(i) ==
    /\ pc[i] = "publish"
    /\ \E sent \in BOOLEAN, posted \in BOOLEAN :
         IF sent
         THEN /\ queue' = [queue EXCEPT ![UserId(i)] = @ + 1]
              /\ Ends(i, "send_message", TRUE, "done", Success, 0, FALSE)
         ELSE /\ Ends(i, "send_message", FALSE, "done",
                      log_and_alert(posted, Success), 1, ~posted)
              /\ UNCHANGED queue
    /\ UNCHANGED <<event, cognito_user, prompt, reqId, clock, userPool, stories, xVars>>

\* the invocation is over; nothing of it is kept in memory
Return(i) ==
    /\ pc[i] = "done"
    /\ pc' = [pc EXCEPT ![i] = "idle"]
    /\ event' = [event EXCEPT ![i] = NoEvent]
    /\ cognito_user' = [cognito_user EXCEPT ![i] = NoUser]
    /\ prompt' = [prompt EXCEPT ![i] = <<>>]
    /\ trace' = [trace EXCEPT ![i] = <<>>]
    /\ alerts' = [alerts EXCEPT ![i] = 0]
    /\ lost' = [lost EXCEPT ![i] = FALSE]
    /\ resp' = [resp EXCEPT ![i] = Pending]
    /\ reqId' = [reqId EXCEPT ![i] = 0]
    /\ UNCHANGED <<clock, userPool, stories, queue, xVars>>

Handler(i) ==
    \/ Signature(i)
    \/ Parse(i)
    \/ GetUser(i)
    \/ UpdateUser(i)
    \/ Compose(i)
    \/ Notify(i)
    \/ Query(i)
    \/ Put(i)
    \/ Publish(i)
    \/ Return(i)

Next ==
    \/ Start
    \/ \E i \in Slots : Handler(i)

Spec == Init /\ [][Next]_vars

NextConc ==
    \/ StartConcurrent
    \/ \E i \in Slots : Handler(i)

SpecConc == Init /\ [][NextConc]_vars

(***************************************************************************)
(* The extraction on drawn payloads: the loop of map_question_id_to_answer *)
(* reads the answers one by one, then lines 103-106 merge.                 *)
(***************************************************************************)
InitExtract ==
    /\ InitPipeline
    /\ xFields \in DrawnDefinitions
    /\ InitExtraction

ReadAnswer ==
    /\ ~xDone
    /\ xRead < MaxAnswers
    /\ \E answer \in DrawnAnswers :
         /\ xMap' = map_answer(xMap, answer)
         /\ xSubmitted' = DictSet(xSubmitted, answer["field"].id, answer)
    /\ xRead' = xRead + 1
    /\ UNCHANGED <<xFields, xPairs, xDone, pipeVars>>

Merge ==
    /\ ~xDone
    /\ xDone' = TRUE
    /\ xPairs' = merge_pairs(get_question_id_to_title([fields |-> xFields]), xMap)
    /\ UNCHANGED <<xFields, xRead, xSubmitted, xMap, pipeVars>>

NextExtract == ReadAnswer \/ Merge

SpecExtract == InitExtract /\ [][NextExtract]_vars

(***************************************************************************)
(* Properties                                                              *)
(***************************************************************************)
Done(i) == pc[i] = "done"

\* the last step of the invocation is `name`, and it failed
FailedAt(i, name) ==
    /\ trace[i] # <<>>
    /\ trace[i][Len(trace[i])] = Step(name, FALSE)

\* a step named `name` is in the trace of invocation i
Took(i, name) == \E k \in DOMAIN trace[i] : trace[i][k].step = name

\* the header is of a shape lines 32-55 answer with a rejection: absent,
\* empty, or with an "=" (a hash name other than sha256, or a digest that
\* does not verify)
Rejected(i) ==
    /\ FailedAt(i, "verify_signature")
    /\ \/ SigHeader \notin DOMAIN event[i].headers
       \/ event[i].headers[SigHeader] = <<>>
       \/ FirstEq(event[i].headers[SigHeader], 1) # 0

\* C1: an invocation whose signature is rejected answers 403 and has
\* performed nothing but the signature check: no identity lookup or update,
\* no prompt notification, no persistence call, no queue publish.
C1_RejectedAnswers403 ==
    \A i \in Slots :
        (Done(i) /\ Rejected(i)) =>
            /\ resp[i].kind = "return"
            /\ resp[i].statusCode = 403
            /\ Len(trace[i]) = 1
            /\ \A item \in stories : item.SK # <<"STORY#", reqId[i]>>

SoftSteps == {"get_cognito_user", "update_user", "save_to_db"}

\* C2: after a failed identity lookup, identity update or save_to_db the
\* invocation ends with a 200 response carrying a detail message, and the
\* failed step is the last step taken.
C2_SoftFailureAnswers200 ==
    \A i \in Slots : \A k \in DOMAIN trace[i] :
        (trace[i][k].step \in SoftSteps /\ ~trace[i][k].ok) =>
            /\ Done(i)
            /\ k = Len(trace[i])
            /\ resp[i].kind = "return"
            /\ resp[i].statusCode = 200
            /\ resp[i].body # <<>>
            /\ resp[i].body[1] = "detail"

\* C5: when the queue publish fails after a successful persistence, the
\* response is the one of a fully successful run and the user's story is
\* still in the table.
C5_PublishFailureKeepsResponse ==
    \A i \in Slots :
        (Done(i) /\ FailedAt(i, "send_message")) =>
            /\ resp[i] = Success
            /\ StoriesOf(UserId(i)) # {}

\* the invocation left early or with an exception
EarlyOrException(i) ==
    /\ Done(i)
    /\ \/ resp[i].kind = "exception"
       \/ resp[i].kind = "return" /\ resp[i] # Success

\* C7: every invocation that ends in an early exit (403 or soft 200) or in
\* an exception has made at least one alert post.
C7_EveryFailureAlerts ==
    \A i \in Slots : EarlyOrException(i) => alerts[i] >= 1

\* the steps whose failure lambda_handler reports through log_and_alert
AlertedSteps == {"verify_signature", "get_cognito_user", "update_user",
                 "save_to_db", "send_message"}

\* C8: when the alert post of log_and_alert raises on a signature
\* rejection, a soft failure or a publish failure, the handler still
\* returns that path's response: 403 for a rejection, 200 otherwise.
C8_LostAlertStillAnswers ==
    \A i \in Slots :
        (Done(i) /\ lost[i] /\ \E n \in AlertedSteps : FailedAt(i, n)
                 /\ (FailedAt(i, "verify_signature") => Rejected(i))) =>
            /\ resp[i].kind = "return"
            /\ resp[i].statusCode = IF FailedAt(i, "verify_signature") THEN 403 ELSE 200

\* C3: with one invocation at a time, the table never holds more than one
\* STORY item per user, and once a user has a story no step changes that
\* user's stories (the first record wins).
C3_FirstStoryWins ==
    /\ [](\A u \in PoolUsers : Cardinality(StoriesOf(u)) <= 1)
    /\ [][\A u \in PoolUsers :
            StoriesOf(u) # {} =>
                dynamodb_query(stories', <<"USER#", u>>, "STORY#") = StoriesOf(u)]_vars

\* a later invocation went through save_to_db for a user whose story was
\* written by an earlier invocation from a different prompt
C3_Witness ==
    \E i \in Slots :
        /\ pc[i] = "publish"
        /\ \E item \in StoriesOf(UserId(i)) :
             /\ item.SK # <<"STORY#", reqId[i]>>
             /\ item.prompt # prompt[i]

\* C4: the insert of save_to_db does not look at the table again: a
\* put_item that follows a query that saw no story adds a STORY item for
\* the user whatever the table holds by then, so overlapping invocations
\* for one user leave two STORY items.
C4_PutIsUnconditional ==
    [][\A i \in Slots :
         (pc[i] = "put" /\ pc'[i] = "publish") =>
             Cardinality(dynamodb_query(stories', <<"USER#", UserId(i)>>, "STORY#"))
                 = Cardinality(StoriesOf(UserId(i))) + 1]_vars

\* two STORY items of one user, written by invocations that overlapped
C4_Witness ==
    \E u \in PoolUsers : Cardinality(StoriesOf(u)) = 2

\* C6: when the prompt notification fails the invocation is over at once
\* with an exception: no response is returned, and save_to_db and the queue
\* publish are not executed.
C6_NotifyFailureIsHard ==
    \A i \in Slots : \A k \in DOMAIN trace[i] :
        (trace[i][k] = Step("send_to_slack", FALSE)) =>
            /\ Done(i)
            /\ resp[i].kind = "exception"
            /\ k = Len(trace[i])
            /\ ~Took(i, "save_to_db")
            /\ ~Took(i, "send_message")
            /\ \A item \in stories : item.SK # <<"STORY#", reqId[i]>>

C6_Witness ==
    \E i \in Slots : Done(i) /\ FailedAt(i, "send_to_slack")

\* the pipeline, in the order lambda_handler runs it
StepOrder == <<"verify_signature", "get_cognito_user", "update_user",
               "generate_prompt", "send_to_slack", "save_to_db", "send_message">>

\* steps that are over when the handler is at a position
StepsBefore(p) ==
    CASE p \in {"idle", "signature"} -> 0
      [] p \in {"parse", "get_user"} -> 1
      [] p = "update_user" -> 2
      [] p = "compose" -> 3
      [] p = "notify" -> 4
      [] p \in {"query", "put"} -> 5
      [] p = "publish" -> 6
      [] OTHER -> Len(StepOrder)

\* C9: the steps of an invocation are taken in the pipeline's order, each
\* at most once, and a step is taken only when every earlier step has
\* succeeded: a story is written and a message is published only by an
\* invocation whose earlier steps all succeeded, and a response comes last.
C9_StepsInOrder ==
    \A i \in Slots :
        /\ Len(trace[i]) <= Len(StepOrder)
        /\ \A k \in DOMAIN trace[i] :
             /\ trace[i][k].step = StepOrder[k]
             /\ k < Len(trace[i]) => trace[i][k].ok
        /\ ~Done(i) =>
             /\ Len(trace[i]) = StepsBefore(pc[i])
             /\ \A k \in DOMAIN trace[i] : trace[i][k].ok
             /\ resp[i] = Pending
        /\ (\E item \in stories : item.SK = <<"STORY#", reqId[i]>>) =>
             /\ Len(trace[i]) >= 6
             /\ trace[i][6].ok
        /\ (Done(i) /\ resp[i].kind = "return" /\ resp[i].statusCode = 403) =>
             Len(trace[i]) = 1

\* an invocation went through the whole pipeline and answered
C9_Witness ==
    \E i \in Slots :
        /\ Done(i)
        /\ Len(trace[i]) = Len(StepOrder)
        /\ \A k \in DOMAIN trace[i] : trace[i][k].ok
        /\ resp[i] = Success
        /\ queue[UserId(i)] > 0
        /\ \E item \in stories : item.SK = <<"STORY#", reqId[i]>>

\* the first tag of the precedence that an answer carries, 0 when none
RECURSIVE FirstTag(_, _)
FirstTag(answer, k) ==
    IF k > Len(TagOrder) THEN 0
    ELSE IF TagOrder[k] \in DOMAIN answer THEN k
    ELSE FirstTag(answer, k + 1)

\* what the documented precedence selects from an answer
Selected(answer) ==
    LET k == FirstTag(answer, 1)
        tag == TagOrder[k]
        v == answer[tag]
    IN  IF k = 0 THEN PyStr("Answer type not supported")
        ELSE CASE tag = "choice" -> v.label
               [] tag = "choices" ->
                    IF Len(v.labels) > 0 THEN PyStr(JoinComma(v.labels)) ELSE v.other
               [] tag = "file" -> v.url
               [] tag = "payment" -> PyStr(v.successful.repr)
               [] OTHER -> v

DefinedIds == {xFields[k].id : k \in DOMAIN xFields}

\* C10: the extracted map has exactly the defined field ids as keys; each
\* entry has the field's title and, as answer, the empty string when no
\* answer was submitted for the field and otherwise what the precedence
\* selects from the answer submitted for it; answers to undefined fields do
\* not appear, and resolving an id absent from the map gives "Not provided".
C10_ExtractionMatchesPrecedence ==
    xDone =>
        /\ DOMAIN xPairs = DefinedIds
        /\ \A k \in DOMAIN xFields :
             /\ xPairs[xFields[k].id].title = xFields[k].title
             /\ xPairs[xFields[k].id].answer =
                    IF xFields[k].id \in DOMAIN xSubmitted
                    THEN Selected(xSubmitted[xFields[k].id])
                    ELSE PyStr("")
        /\ \A q \in QuestionIds \ DefinedIds :
             safe_get_answer(xPairs, q) = PyStr("Not provided")
        /\ \A q \in DefinedIds : safe_get_answer(xPairs, q) = xPairs[q].answer

\* q1 is defined and answered with two tags, a multiple choice without
\* labels among them; q2 is answered but not defined
C10_Witness ==
    /\ xDone
    /\ DefinedIds = {"q1"}
    /\ DOMAIN xSubmitted = {"q1", "q2"}
    /\ DOMAIN xSubmitted["q1"] = {"field", "choices", "url"}
    /\ xSubmitted["q1"]["choices"].labels = <<>>
    /\ xPairs["q1"].answer = PyStr("Custom")

====
